---- MODULE Spec2Model ----
(***************************************************************************)
(* A model of src/step1_get_youtube.py: the URL helpers get_video_url and  *)
(* extract_urls_from_playlist, download_video, and the orchestration       *)
(* get_youtube.  Python strings are sequences of one-character strings, so *)
(* that `in`, str.split and f-string formatting are computed character by  *)
(* character.  The yt_dlp library, the clock and the file system are the   *)
(* environment: each call into them is a choice over the results they can  *)
(* give.  Logging has no effect on the results and is not modelled.        *)
(***************************************************************************)
EXTENDS Integers, Sequences, FiniteSets, TLC

VARIABLES
  pc,             \* position of the run
  url,            \* the url argument of the function under study
  type,           \* get_youtube's type argument
  max_downloads,  \* config MAX_DOWNLOADS / the max_downloads argument
  lib,            \* what ydl.extract_info gives for the playlist (pure-function runs)
  extracted,      \* return value of extract_urls_from_playlist, <<>> before the call
  queried,        \* playlist URLs handed to ydl.extract_info(download=False)
  url_ls,         \* get_youtube's url_ls
  idx,            \* number of URLs of url_ls whose download_video has returned
  calls,          \* video_url arguments of the download_video calls, in call order
  returns,        \* the (success, title) tuples download_video returned, in order
  active,         \* number of download_video calls that have not returned yet
  last,           \* what happened inside the last download_video call
  files,          \* names of the files in output_dir
  success_count,
  fail_count,
  report_lines,
  report_path,
  reports,        \* writes of a report file: <<[path, lines]>>
  result          \* return value of the function under study, <<>> before it returns

vars == <<pc, url, type, max_downloads, lib, extracted, queried, url_ls, idx, calls,
          returns, active, last, files, success_count, fail_count, report_lines, report_path,
          reports, result>>

\* ---------------------------------------------------------------- bounds
MaxFrags == 4      \* fragments concatenated into an input of get_video_url
MaxEntries == 3    \* entries of a playlist
MaxCap == 2        \* largest MAX_DOWNLOADS

\* ------------------------------------------------------- Python strings
\* sub in s
Contains(s, sub) ==
  \E i \in 0..(Len(s) - Len(sub)) : SubSeq(s, i + 1, i + Len(sub)) = sub

\* s.find(sub) + 1: the 1-based position of the leftmost occurrence, 0 when none
Find(s, sub) ==
  IF Contains(s, sub)
  THEN CHOOSE i \in 1..(Len(s) - Len(sub) + 1) :
         /\ SubSeq(s, i, i + Len(sub) - 1) = sub
         /\ \A j \in 1..(i - 1) : SubSeq(s, j, j + Len(sub) - 1) # sub
  ELSE 0

\* s.split(sep), sep non-empty: the list of the parts, left to right
RECURSIVE Split(_, _)
Split(s, sep) ==
  LET i == Find(s, sep) IN
  IF i = 0 THEN <<s>>
  ELSE <<SubSeq(s, 1, i - 1)>> \o Split(SubSeq(s, i + Len(sep), Len(s)), sep)

\* s[:n], Python slice semantics (a negative n counts from the end)
SliceTo(s, n) ==
  LET stop == IF n >= 0 THEN n ELSE Len(s) + n
      k == IF stop < 0 THEN 0 ELSE IF stop > Len(s) THEN Len(s) ELSE stop
  IN SubSeq(s, 1, k)

\* x in lst
InList(x, lst) == \E i \in 1..Len(lst) : lst[i] = x

Digit(d) == <<"0", "1", "2", "3", "4", "5", "6", "7", "8", "9">>[d + 1]

\* str(n) for n >= 0
RECURSIVE StrNat(_)
StrNat(n) == IF n < 10 THEN <<Digit(n)>> ELSE StrNat(n \div 10) \o <<Digit(n % 10)>>

\* str(n), as in f"{n}"
StrInt(n) == IF n < 0 THEN <<"-">> \o StrNat(0 - n) ELSE StrNat(n)

\* ------------------------------------------------------------- constants
YT_WATCH == <<"h", "t", "t", "p", "s", ":", "/", "/", "w", "w", "w", ".", "y", "o", "u", "t", "u", "b", "e", ".", "c", "o", "m", "/", "w", "a", "t", "c", "h", "?", "v", "=">>
YT_PLAYLIST == <<"h", "t", "t", "p", "s", ":", "/", "/", "w", "w", "w", ".", "y", "o", "u", "t", "u", "b", "e", ".", "c", "o", "m", "/", "p", "l", "a", "y", "l", "i", "s", "t", "?", "l", "i", "s", "t", "=">>
WATCH_V == <<"w", "a", "t", "c", "h", "?", "v", "=">>
V_EQ == <<"v", "=">>
AMP_LIST == <<"&", "l", "i", "s", "t", "=">>
LIST_EQ == <<"l", "i", "s", "t", "=">>
AMP == <<"&">>

\* f"https://www.youtube.com/watch?v={video_id}"
WatchUrl(video_id) == YT_WATCH \o video_id

\* ---------------------------------------------------------- get_video_url
get_video_url(url_with_playlist) ==
  IF Contains(url_with_playlist, AMP_LIST) /\ Contains(url_with_playlist, V_EQ)
  THEN LET video_id == Split(Split(url_with_playlist, V_EQ)[2], AMP)[1]
       IN WatchUrl(video_id)
  ELSE url_with_playlist

\* ------------------------------------------- extract_urls_from_playlist
\* What ydl.extract_info(playlist_url, download=False) does:
\*   kind "raise"     it raises
\*   kind "none"      it returns None (ignoreerrors), so `'entries' in None` raises
\*   kind "noentries" it returns a dict without 'entries'
\*   kind "entries"   it returns a dict whose 'entries' yields `entries` and then,
\*                    when `raises`, raises (a lazy playlist failing part-way)
\* An entry is None or an empty dict (truthy = FALSE), or a dict with or without 'id'.
NullEntry == [truthy |-> FALSE, hasId |-> FALSE, id |-> <<>>]
NoIdEntry == [truthy |-> TRUE, hasId |-> FALSE, id |-> <<>>]
IdEntry(i) == [truthy |-> TRUE, hasId |-> TRUE, id |-> i]

\* faulty variant of AddEntries: the `not in url_list` test is missing
RECURSIVE AddEntriesNoDedup(_, _, _)
AddEntriesNoDedup(url_list, entries, max) ==
  IF entries = <<>> THEN url_list
  ELSE LET entry == Head(entries)
           video_id == entry.id
           video_url == WatchUrl(video_id)
           next == IF entry.truthy /\ Len(url_list) < max
                      /\ entry.hasId /\ video_id # <<>>
                   THEN Append(url_list, video_url)
                   ELSE url_list
       IN AddEntriesNoDedup(next, Tail(entries), max)

\* the loop over playlist_info['entries']
RECURSIVE AddEntries(_, _, _)
AddEntries(url_list, entries, max) ==
  IF entries = <<>> THEN url_list
  ELSE LET entry == Head(entries)
           video_id == entry.id
           video_url == WatchUrl(video_id)
           next == IF entry.truthy /\ Len(url_list) < max
                      /\ entry.hasId /\ video_id # <<>>
                      /\ ~InList(video_url, url_list)
                   THEN Append(url_list, video_url)
                   ELSE url_list
       IN AddEntries(next, Tail(entries), max)

\* the playlist URL handed to ydl.extract_info
PlaylistUrl(u) ==
  IF Contains(u, LIST_EQ)
  THEN YT_PLAYLIST \o Split(Split(u, LIST_EQ)[2], AMP)[1]
  ELSE u

\* the url_list before the playlist is extracted
EmbeddedList(u) ==
  IF Contains(u, WATCH_V) /\ Contains(u, LIST_EQ)
  THEN <<WatchUrl(Split(Split(u, WATCH_V)[2], AMP)[1])>>
  ELSE <<>>

\* faulty variant of extract_urls_from_playlist: the embedded video is forgotten
extract_urls_playlist_only(u, max, l) ==
  LET collected == IF l.kind = "entries" THEN AddEntries(<<>>, l.entries, max) ELSE <<>>
  IN [urls |-> SliceTo(collected, max), queried |-> <<PlaylistUrl(u)>>]

\* [urls |-> the returned list, queried |-> the extract_info calls made]
extract_urls_from_playlist(u, max, l) ==
  LET url_list == EmbeddedList(u) IN
  IF Contains(u, WATCH_V) /\ Contains(u, LIST_EQ) /\ max = 1
  THEN [urls |-> url_list, queried |-> <<>>]
  ELSE LET collected == IF l.kind = "entries"
                        THEN AddEntries(url_list, l.entries, max)
                        ELSE url_list
       IN [urls |-> SliceTo(collected, max), queried |-> <<PlaylistUrl(u)>>]

\* ---------------------------------------------------------- download_video
\* What the library does in one download_video call:
\*   info  "raise"  YoutubeDL(...) or extract_info raises
\*         "none"   extract_info returns None
\*         "dict"   extract_info returns a dict; hasTitle says whether it has 'title'
\*   dl    "ok"        ydl.download writes the file prepare_filename names
\*         "elsewhere" ydl.download writes a file under another name
\*         "silent"    ydl.download fails and returns (ignoreerrors), writing nothing
\*         "raise"     ydl.download raises, writing nothing
UNKNOWN_TITLE == <<"U", "n", "k", "n", "o", "w", "n", " ", "T", "i", "t", "l", "e">>
INFO_FAILED == <<"U", "n", "k", "n", "o", "w", "n", " ", "(", "I", "n", "f", "o", " ", "e", "x", "t", "r", "a", "c", "t", "i", "o", "n", " ", "f", "a", "i", "l", "e", "d", ")">>
ErrMsg == <<"U", "n", "k", "n", "o", "w", "n", " ", "(", "E", "r", "r", "o", "r", ":", " ", "b", "o", "o", "m", ")">>
NA == <<"N", "A">>
DOT == <<".">>
EXT == <<"m", "p", "4">>
OtherFile == <<"x", ".", "m", "p", "4">>

\* ydl.prepare_filename(info_dict) under outtmpl '%(title)s.%(ext)s', without the directory
prepare_filename(env) == (IF env.hasTitle THEN env.title ELSE NA) \o DOT \o EXT

\* position of the last "." of name, 0 when none
LastDot(name) ==
  IF \E i \in 1..Len(name) : name[i] = "."
  THEN CHOOSE i \in 1..Len(name) :
         name[i] = "." /\ \A j \in (i + 1)..Len(name) : name[j] # "."
  ELSE 0

\* Path(name).stem
Stem(name) ==
  LET p == LastDot(name) IN
  IF p > 1 /\ p < Len(name) THEN SubSeq(name, 1, p - 1) ELSE name

\* output_dir.glob(f"{base}.*"), base free of glob metacharacters
Glob(dir, base) ==
  {f \in dir : Len(f) > Len(base) /\ SubSeq(f, 1, Len(base) + 1) = base \o DOT}

\* faulty variant of download_video: no try/except around the library calls
download_video_propagating(video_url, dir, env) ==
  IF env.info = "raise" \/ (env.info = "dict" /\ env.dl = "raise")
  THEN [success |-> FALSE, title |-> ErrMsg, files |-> dir, raised |-> TRUE, put |-> FALSE]
  ELSE IF env.info = "none"
  THEN [success |-> FALSE, title |-> INFO_FAILED, files |-> dir, raised |-> FALSE,
        put |-> FALSE]
  ELSE LET title == IF env.hasTitle THEN env.title ELSE UNKNOWN_TITLE
           after == CASE env.dl = "ok" -> dir \cup {prepare_filename(env)}
                      [] env.dl = "elsewhere" -> dir \cup {OtherFile}
                      [] OTHER -> dir
           base_filename == Stem(prepare_filename(env))
           matching_files == Glob(after, base_filename)
       IN [success |-> matching_files # {}, title |-> title, files |-> after,
           raised |-> FALSE, put |-> env.dl \in {"ok", "elsewhere"}]

\* [success, title]: the returned tuple; files: output_dir afterwards;
\* raised: an exception left download_video; put: ydl.download wrote a file
download_video(video_url, dir, env) ==
  IF env.info = "raise"
  THEN [success |-> FALSE, title |-> ErrMsg, files |-> dir, raised |-> FALSE, put |-> FALSE]
  ELSE IF env.info = "none"
  THEN [success |-> FALSE, title |-> INFO_FAILED, files |-> dir, raised |-> FALSE,
        put |-> FALSE]
  ELSE LET title == IF env.hasTitle THEN env.title ELSE UNKNOWN_TITLE
           after == CASE env.dl = "ok" -> dir \cup {prepare_filename(env)}
                      [] env.dl = "elsewhere" -> dir \cup {OtherFile}
                      [] OTHER -> dir
           base_filename == Stem(prepare_filename(env))
           matching_files == Glob(after, base_filename)
       IN IF env.dl = "raise"
          THEN [success |-> FALSE, title |-> ErrMsg, files |-> dir, raised |-> FALSE,
                put |-> FALSE]
          ELSE [success |-> matching_files # {}, title |-> title, files |-> after,
                raised |-> FALSE, put |-> env.dl \in {"ok", "elsewhere"}]

\* ---------------------------------------------------------- setup_logging
\* f"download_log_{datetime.now().strftime('%Y%m%d_%H%M%S')}.log"
LogFile(stamp) == <<"d", "o", "w", "n", "l", "o", "a", "d", "_", "l", "o", "g", "_">> \o stamp \o <<".", "l", "o", "g">>

\* output_dir after setup_logging(log_level, output_dir): logging.FileHandler has
\* created the log file, whatever the log level
setup_logging(dir, stamp) == dir \cup {LogFile(stamp)}

\* ------------------------------------------------------------ get_youtube
VIDEO == <<"v", "i", "d", "e", "o">>
AUDIO == <<"a", "u", "d", "i", "o">>
None == <<"None">>

\* faulty variant of ValidType: no type is rejected
ValidTypeAny(t) == TRUE

\* type in ['video', 'audio']
ValidType(t) == t \in {VIDEO, AUDIO}

\* faulty variant of ResolveUrls: the last-resort append of url is missing
ResolveUrlsNoLastResort(u, max, l) ==
  IF Contains(u, LIST_EQ)
  THEN LET r == extract_urls_from_playlist(u, max, l)
           fallback == IF r.urls = <<>> /\ Contains(u, WATCH_V)
                       THEN <<WatchUrl(Split(Split(u, WATCH_V)[2], AMP)[1])>>
                       ELSE r.urls
       IN [url_ls |-> fallback, extracted |-> r.urls, queried |-> r.queried]
  ELSE [url_ls |-> <<get_video_url(u)>>, extracted |-> <<>>, queried |-> <<>>]

\* url_ls when the loop is reached, with what extract_urls_from_playlist gave
ResolveUrls(u, max, l) ==
  LET first ==
        IF Contains(u, LIST_EQ)
        THEN LET r == extract_urls_from_playlist(u, max, l)
                 fallback == IF r.urls = <<>> /\ Contains(u, WATCH_V)
                             THEN <<WatchUrl(Split(Split(u, WATCH_V)[2], AMP)[1])>>
                             ELSE r.urls
             IN [url_ls |-> fallback, extracted |-> r.urls, queried |-> r.queried]
        ELSE [url_ls |-> <<get_video_url(u)>>, extracted |-> <<>>, queried |-> <<>>]
  IN [first EXCEPT !.url_ls = IF first.url_ls = <<>> THEN <<u>> ELSE first.url_ls]

RULE == [i \in 1..50 |-> "="]
NL == <<"\n">>

\* report_lines as initialised
ReportHeader(now, t, max) ==
  << <<"Y", "o", "u", "T", "u", "b", "e", " ", "D", "o", "w", "n", "l", "o", "a", "d", " ", "R", "e", "p", "o", "r", "t", "\n">>,
     <<"G", "e", "n", "e", "r", "a", "t", "e", "d", ":", " ">> \o now \o NL,
     <<"D", "o", "w", "n", "l", "o", "a", "d", " ", "T", "y", "p", "e", ":", " ">> \o t \o NL,
     <<"M", "a", "x", " ", "D", "o", "w", "n", "l", "o", "a", "d", "s", ":", " ">> \o StrInt(max) \o NL,
     RULE \o NL \o NL >>

SUCCESS == <<"S", "U", "C", "C", "E", "S", "S", ":", " ">>
FAILED == <<"F", "A", "I", "L", "E", "D", ":", " ">>
SEP == <<" ", "-", " ">>
UNABLE == <<" ", "-", " ", "U", "n", "a", "b", "l", "e", " ", "t", "o", " ", "d", "o", "w", "n", "l", "o", "a", "d", "\n">>

\* faulty variant of Tally: a failure is neither counted nor reported
TallyLosingFailures(success, title, video_url, sc, fc, lines) ==
  IF success
  THEN [lines |-> Append(lines, SUCCESS \o title \o SEP \o video_url \o NL),
        success_count |-> sc + 1, fail_count |-> fc]
  ELSE [lines |-> lines, success_count |-> sc, fail_count |-> fc]

\* the loop body after download_video has returned
Tally(success, title, video_url, sc, fc, lines) ==
  IF success
  THEN [lines |-> Append(lines, SUCCESS \o title \o SEP \o video_url \o NL),
        success_count |-> sc + 1, fail_count |-> fc]
  ELSE [lines |-> Append(lines, FAILED \o video_url \o UNABLE),
        success_count |-> sc, fail_count |-> fc + 1]

\* ---- binary floating point (IEEE 754 double, round to nearest, ties to even)
\* A positive double is [m |-> its 53 significand bits, most significant first,
\* e |-> exponent]: the value is m * 2^e, m read as an integer.
SIGNIFICAND == 53

\* the binary digits of n >= 0, no leading zero (<<>> for 0)
RECURSIVE BitsOf(_)
BitsOf(n) == IF n = 0 THEN <<>> ELSE BitsOf(n \div 2) \o <<n % 2>>

\* the integer a bit sequence denotes (short sequences only)
RECURSIVE IntOf(_)
IntOf(b) == IF b = <<>> THEN 0 ELSE 2 * IntOf(SubSeq(b, 1, Len(b) - 1)) + b[Len(b)]

\* b + 1
RECURSIVE Inc(_)
Inc(b) ==
  IF b = <<>> THEN <<1>>
  ELSE IF b[Len(b)] = 0 THEN SubSeq(b, 1, Len(b) - 1) \o <<1>>
  ELSE Inc(SubSeq(b, 1, Len(b) - 1)) \o <<0>>

\* b * c + carry for a small integer c
RECURSIVE MulSmall(_, _, _)
MulSmall(b, c, carry) ==
  IF b = <<>> THEN BitsOf(carry)
  ELSE LET t == b[Len(b)] * c + carry
       IN MulSmall(SubSeq(b, 1, Len(b) - 1), c, t \div 2) \o <<t % 2>>

\* how the dropped bits compare with one half: -1 below, 0 a tie, 1 above
HalfCmp(low) ==
  IF low = <<>> \/ low[1] = 0 THEN -1
  ELSE IF \E i \in 2..Len(low) : low[i] = 1 THEN 1 ELSE 0

\* bits rounded to the nearest integer, ties to even; cmp as HalfCmp gives it
RoundEven(bits, cmp) ==
  IF cmp > 0 \/ (cmp = 0 /\ bits # <<>> /\ bits[Len(bits)] = 1) THEN Inc(bits) ELSE bits

\* the double nearest to bits * 2^e, given how the part below bits compares with half
ToDouble(bits, e, cmp) ==
  LET r == RoundEven(bits, cmp) IN
  IF Len(r) > SIGNIFICAND THEN [m |-> SubSeq(r, 1, SIGNIFICAND), e |-> e + 1]
  ELSE [m |-> r, e |-> e]

\* r doubled until the next quotient bit of r/d is 1; k counts the doublings
RECURSIVE Normalise(_, _, _)
Normalise(r, d, k) == IF 2 * r >= d THEN [r |-> r, k |-> k] ELSE Normalise(2 * r, d, k + 1)

\* the next c bits of the binary expansion of r/d (r < d), and the remainder left
RECURSIVE QuotientBits(_, _, _)
QuotientBits(r, d, c) ==
  IF c = 0 THEN [bits |-> <<>>, r |-> r]
  ELSE LET b == IF 2 * r >= d THEN 1 ELSE 0
           q == QuotientBits(2 * r - b * d, d, c - 1)
       IN [bits |-> <<b>> \o q.bits, r |-> q.r]

\* p / d as a double, 0 < p < d
FloatDiv(p, d) ==
  LET nz == Normalise(p, d, 0)
      q == QuotientBits(nz.r, d, SIGNIFICAND)
      cmp == IF 2 * q.r > d THEN 1 ELSE IF 2 * q.r = d THEN 0 ELSE -1
  IN ToDouble(q.bits, 0 - (nz.k + SIGNIFICAND), cmp)

\* x * c as a double, c a small positive integer
FloatMul(x, c) ==
  LET prod == MulSmall(x.m, c, 0)
      extra == Len(prod) - SIGNIFICAND
  IN ToDouble(SubSeq(prod, 1, SIGNIFICAND), x.e + extra,
              HalfCmp(SubSeq(prod, SIGNIFICAND + 1, Len(prod))))

\* round(x * 10) to an integer, ties to even, for a double x < 2^20 with x.e < 0:
\* the tenths that f"{x:.1f}" prints
Tenths(x) ==
  LET prod == MulSmall(x.m, 10, 0)
      f == 0 - x.e
      padded == [i \in 1..(IF Len(prod) < f THEN f - Len(prod) ELSE 0) |-> 0] \o prod
      whole == SubSeq(padded, 1, Len(padded) - f)
      frac == SubSeq(padded, Len(padded) - f + 1, Len(padded))
  IN IntOf(RoundEven(whole, HalfCmp(frac)))

\* f"{(sc/n)*100:.1f}" for 0 <= sc <= n, n > 0
Rate(sc, n) ==
  LET t == IF sc = 0 THEN 0
           ELSE IF sc = n THEN 1000
           ELSE Tenths(FloatMul(FloatDiv(sc, n), 100))
  IN StrNat(t \div 10) \o DOT \o <<Digit(t % 10)>>

\* the lines appended after the loop
Summary(n, sc, fc) ==
  << NL \o RULE \o NL,
     <<"D", "o", "w", "n", "l", "o", "a", "d", " ", "S", "u", "m", "m", "a", "r", "y", ":", "\n">>,
     <<"T", "o", "t", "a", "l", " ", "P", "r", "o", "c", "e", "s", "s", "e", "d", ":", " ">> \o StrInt(n) \o NL,
     <<"T", "o", "t", "a", "l", " ", "S", "u", "c", "c", "e", "s", "s", ":", " ">> \o StrInt(sc) \o NL,
     <<"T", "o", "t", "a", "l", " ", "F", "a", "i", "l", "u", "r", "e", "s", ":", " ">> \o StrInt(fc) \o NL >>
  \o (IF n > 0 THEN << <<"S", "u", "c", "c", "e", "s", "s", " ", "R", "a", "t", "e", ":", " ">> \o Rate(sc, n) \o <<"%", "\n">> >> ELSE <<>>)

\* ------------------------------------------------------------ inputs
Frags == { WATCH_V, V_EQ, AMP_LIST, LIST_EQ, AMP, <<"a">>, <<"b">>, <<"h", "t", "t", "p", "s", ":", "/", "/", "y", "o", "u", "t", "u", ".", "b", "e", "/">> }

RECURSIVE Concats(_)
Concats(n) ==
  IF n = 0 THEN {<<>>}
  ELSE LET prev == Concats(n - 1) IN prev \cup {p \o f : p \in prev, f \in Frags}

UrlInputs == Concats(MaxFrags)

RunUrls == { <<"h", "t", "t", "p", "s", ":", "/", "/", "w", "w", "w", ".", "y", "o", "u", "t", "u", "b", "e", ".", "c", "o", "m", "/", "w", "a", "t", "c", "h", "?", "v", "=", "a">>,
             <<"h", "t", "t", "p", "s", ":", "/", "/", "w", "w", "w", ".", "y", "o", "u", "t", "u", "b", "e", ".", "c", "o", "m", "/", "w", "a", "t", "c", "h", "?", "v", "=", "a", "&", "l", "i", "s", "t", "=", "P", "L", "1", "&", "i", "n", "d", "e", "x", "=", "2">>,
             <<"h", "t", "t", "p", "s", ":", "/", "/", "w", "w", "w", ".", "y", "o", "u", "t", "u", "b", "e", ".", "c", "o", "m", "/", "w", "a", "t", "c", "h", "?", "v", "=", "&", "l", "i", "s", "t", "=", "P", "L", "1">>,
             <<"h", "t", "t", "p", "s", ":", "/", "/", "w", "w", "w", ".", "y", "o", "u", "t", "u", "b", "e", ".", "c", "o", "m", "/", "p", "l", "a", "y", "l", "i", "s", "t", "?", "l", "i", "s", "t", "=", "P", "L", "1">>,
             <<"h", "t", "t", "p", "s", ":", "/", "/", "y", "o", "u", "t", "u", ".", "b", "e", "/", "a", "?", "l", "i", "s", "t", "=", "P", "L", "1">>,
             <<"h", "t", "t", "p", "s", ":", "/", "/", "y", "o", "u", "t", "u", ".", "b", "e", "/", "a">> }

EntryIds == { <<>>, <<"a">>, <<"b">> }
Entries == {NullEntry, NoIdEntry} \cup {IdEntry(i) : i \in EntryIds}

RECURSIVE SeqsUpTo(_, _)
SeqsUpTo(S, n) ==
  IF n = 0 THEN {<<>>}
  ELSE LET prev == SeqsUpTo(S, n - 1) IN prev \cup {Append(p, x) : p \in prev, x \in S}

NoLib == [kind |-> "unset", entries |-> <<>>, raises |-> FALSE]
Libs ==
  {[kind |-> k, entries |-> <<>>, raises |-> FALSE] : k \in {"raise", "none", "noentries"}}
  \cup {[kind |-> "entries", entries |-> e, raises |-> r] :
          e \in SeqsUpTo(Entries, MaxEntries), r \in BOOLEAN}

Caps == 0..MaxCap

Types == {VIDEO, AUDIO, <<"t", "e", "x", "t">>}
\* datetime.now() as strftime('%Y-%m-%d %H:%M:%S') and as strftime('%Y%m%d_%H%M%S')
Times == { <<"2", "0", "2", "6", "-", "0", "1", "-", "0", "1", " ", "0", "0", ":", "0", "0", ":", "0", "0">> }
Stamps == { <<"2", "0", "2", "6", "0", "1", "0", "1", "_", "0", "0", "0", "0", "0", "0">> }
Titles == { <<"a">>, <<"a", ".", "b">> } \cup {Stem(LogFile(s)) : s \in Stamps}
\* output_dir before the run
InitFiles == { {}, { <<"a", ".", "m", "p", "4">> } }
DownloadEnvs ==
  {[info |-> i, hasTitle |-> FALSE, title |-> <<>>, dl |-> "unset"] : i \in {"raise", "none"}}
  \cup {[info |-> "dict", hasTitle |-> TRUE, title |-> t, dl |-> d] :
          t \in Titles, d \in {"ok", "elsewhere", "silent", "raise"}}
  \cup {[info |-> "dict", hasTitle |-> FALSE, title |-> <<>>, dl |-> d] :
          d \in {"ok", "elsewhere", "silent", "raise"}}

NoLast == [info |-> "unset", dl |-> "unset", put |-> FALSE, success |-> FALSE]

\* the variables a run of one pure function leaves alone
Idle ==
  /\ type = <<>> /\ url_ls = <<>> /\ idx = 0 /\ calls = <<>> /\ returns = <<>>
  /\ active = 0
  /\ last = NoLast /\ files = {} /\ success_count = 0 /\ fail_count = 0
  /\ report_lines = <<>> /\ report_path = <<>> /\ reports = <<>>

IdleUnchanged ==
  UNCHANGED <<type, url_ls, idx, calls, returns, active, last, files, success_count, fail_count,
              report_lines, report_path, reports>>

\* ---------------------------------------- get_video_url on arbitrary inputs
InitUrl ==
  /\ pc = "start" /\ url \in UrlInputs /\ max_downloads = 0 /\ lib = NoLib
  /\ extracted = <<>> /\ queried = <<>> /\ result = <<>> /\ Idle

ApplyGetVideoUrl ==
  /\ pc = "start"
  /\ result' = <<get_video_url(url)>>
  /\ pc' = "done"
  /\ UNCHANGED <<url, max_downloads, lib, extracted, queried>>
  /\ IdleUnchanged

ApplyGetVideoUrlAgain ==
  /\ pc = "done" /\ Len(result) = 1
  /\ result' = Append(result, get_video_url(result[1]))
  /\ pc' = "twice"
  /\ UNCHANGED <<url, max_downloads, lib, extracted, queried>>
  /\ IdleUnchanged

NextUrl == ApplyGetVideoUrl \/ ApplyGetVideoUrlAgain

SpecUrl == InitUrl /\ [][NextUrl]_vars

\* ------------------------- extract_urls_from_playlist on arbitrary inputs
InitPlaylist ==
  /\ pc = "start" /\ url \in RunUrls /\ max_downloads \in (-1)..MaxCap
  /\ lib \in Libs /\ extracted = <<>> /\ queried = <<>> /\ result = <<>> /\ Idle

ApplyExtract ==
  /\ pc = "start"
  /\ LET r == extract_urls_from_playlist(url, max_downloads, lib) IN
       /\ extracted' = r.urls
       /\ queried' = r.queried
       /\ result' = <<r.urls>>
  /\ pc' = "done"
  /\ UNCHANGED <<url, max_downloads, lib>>
  /\ IdleUnchanged

NextPlaylist == ApplyExtract

SpecPlaylist == InitPlaylist /\ [][NextPlaylist]_vars

\* ------------------------------------------------------- a get_youtube run
Init ==
  /\ pc = "start" /\ url \in RunUrls /\ type \in Types /\ max_downloads \in Caps
  /\ files \in {setup_logging(d, s) : d \in InitFiles, s \in Stamps}
  /\ lib = NoLib /\ extracted = <<>> /\ queried = <<>> /\ url_ls = <<>> /\ idx = 0
  /\ calls = <<>> /\ returns = <<>> /\ active = 0 /\ last = NoLast
  /\ success_count = 0 /\ fail_count = 0 /\ report_lines = <<>> /\ report_path = <<>>
  /\ reports = <<>> /\ result = <<>>

Return(sc, fc, path) == <<[success_count |-> sc, fail_count |-> fc, report_path |-> path]>>

\* the type check
Validate ==
  /\ pc = "start"
  /\ IF ValidType(type)
     THEN pc' = "resolve" /\ UNCHANGED result
     ELSE pc' = "done" /\ result' = Return(0, 0, None)
  /\ UNCHANGED <<url, type, max_downloads, lib, extracted, queried, url_ls, idx, calls,
                 returns, active, last, files, success_count, fail_count, report_lines,
                 report_path, reports>>

\* what resolution can give for each url and cap, over the library's answers
Resolutions ==
  [u \in RunUrls |-> [m \in Caps |-> {ResolveUrls(u, m, l) : l \in Libs}]]

\* from reading MAX_DOWNLOADS to the initialised report
Resolve ==
  /\ pc = "resolve"
  /\ \E r \in Resolutions[url][max_downloads], now \in Times, timestamp \in Stamps :
       /\ extracted' = r.extracted
       /\ queried' = r.queried
       /\ url_ls' = r.url_ls
       /\ IF r.url_ls = <<>>
          THEN /\ pc' = "done"
               /\ result' = Return(0, 0, None)
               /\ UNCHANGED <<report_path, report_lines>>
          ELSE /\ pc' = "loop"
               /\ report_path' = <<"r", "e", "p", "o", "r", "t", "_">> \o timestamp \o <<".", "t", "x", "t">>
               /\ report_lines' = ReportHeader(now, type, max_downloads)
               /\ UNCHANGED result
  /\ UNCHANGED <<url, type, max_downloads, lib, idx, calls, returns, active, last, files,
                 success_count, fail_count, reports>>

\* the loop enters download_video for the next URL
CallDownload ==
  /\ pc = "loop" /\ idx < Len(url_ls)
  /\ calls' = Append(calls, url_ls[idx + 1])
  /\ active' = active + 1
  /\ pc' = "downloading"
  /\ UNCHANGED <<url, type, max_downloads, lib, extracted, queried, url_ls, idx, returns,
                 last, files, success_count, fail_count, report_lines, report_path,
                 reports, result>>

\* download_video runs and returns, and the loop body records the outcome
ReturnDownload ==
  /\ pc = "downloading"
  /\ \E env \in DownloadEnvs :
       LET video_url == calls[Len(calls)]
           r == download_video(video_url, files, env)
           t == Tally(r.success, r.title, video_url, success_count, fail_count,
                      report_lines)
       IN /\ files' = r.files
          /\ active' = active - 1
          /\ last' = [info |-> env.info, dl |-> env.dl, put |-> r.put,
                      success |-> r.success]
          /\ IF r.raised
             THEN /\ pc' = "raised"
                  /\ UNCHANGED <<idx, returns, success_count, fail_count, report_lines>>
             ELSE /\ pc' = "loop"
                  /\ idx' = idx + 1
                  /\ returns' = Append(returns, [success |-> r.success, title |-> r.title])
                  /\ success_count' = t.success_count
                  /\ fail_count' = t.fail_count
                  /\ report_lines' = t.lines
  /\ UNCHANGED <<url, type, max_downloads, lib, extracted, queried, url_ls, calls,
                 report_path, reports, result>>

\* Summary for every length url_ls can have and every count the loop can reach
MaxUrls == IF MaxCap < 1 THEN 1 ELSE MaxCap
Summaries ==
  [n \in 0..MaxUrls |-> [sc \in 0..n |-> [fc \in 0..n |-> Summary(n, sc, fc)]]]

\* faulty variant of WriteReport: it does not wait for the loop to end
WriteReportEarly ==
  /\ pc = "loop"
  /\ LET lines == report_lines \o Summaries[Len(url_ls)][success_count][fail_count] IN
       /\ report_lines' = lines
       /\ reports' = Append(reports, [path |-> report_path, lines |-> lines])
  /\ files' = files \cup {report_path}
  /\ result' = Return(success_count, fail_count, report_path)
  /\ pc' = "done"
  /\ UNCHANGED <<url, type, max_downloads, lib, extracted, queried, url_ls, idx, calls,
                 returns, active, last, success_count, fail_count, report_path>>

\* the summary, the report file and the return
WriteReport ==
  /\ pc = "loop" /\ idx = Len(url_ls)
  /\ LET lines == report_lines \o Summaries[Len(url_ls)][success_count][fail_count] IN
       /\ report_lines' = lines
       /\ reports' = Append(reports, [path |-> report_path, lines |-> lines])
  /\ files' = files \cup {report_path}
  /\ result' = Return(success_count, fail_count, report_path)
  /\ pc' = "done"
  /\ UNCHANGED <<url, type, max_downloads, lib, extracted, queried, url_ls, idx, calls,
                 returns, active, last, success_count, fail_count, report_path>>

Next == Validate \/ Resolve \/ CallDownload \/ ReturnDownload \/ WriteReport

Spec == Init /\ [][Next]_vars

\* every step of the script is taken once it can be: nothing in it waits
FairSpec == Spec /\ WF_vars(Next)

\* ------------------------------------------------------------ properties
StartsWith(s, p) == Len(s) >= Len(p) /\ SubSeq(s, 1, Len(p)) = p

\* the text of u after the first occurrence of key, up to the next "&" or the end
IdAfter(u, key) ==
  LET i == Find(u, key)
      rest == SubSeq(u, i + Len(key), Len(u))
      j == Find(rest, AMP)
  IN IF j = 0 THEN rest ELSE SubSeq(rest, 1, j - 1)

IsMedia == type = VIDEO \/ type = AUDIO
Resolved == pc \in {"loop", "downloading"} \/ (pc = "done" /\ IsMedia)
NoRepeat(s) == \A i, j \in 1..Len(s) : i # j => s[i] # s[j]

RECURSIVE Dedup(_)
Dedup(s) ==
  IF s = <<>> THEN <<>>
  ELSE LET d == Dedup(SubSeq(s, 1, Len(s) - 1)) IN
       IF InList(s[Len(s)], d) THEN d ELSE Append(d, s[Len(s)])

\* C1: for a URL containing 'list=' and MAX_DOWNLOADS >= 0, the resolved URL list the
\* download loop iterates over, and so the downloads attempted, number at most
\* MAX_DOWNLOADS.
C1_CapRespected ==
  (Resolved /\ Contains(url, LIST_EQ) /\ max_downloads >= 0)
    => (Len(url_ls) <= max_downloads /\ Len(calls) <= max_downloads)

\* C2: the list extract_urls_from_playlist returns holds no URL twice, whatever the
\* URL, the cap and the playlist entries.
C2_NoDuplicates == pc = "done" => NoRepeat(extracted)

C2_Witness ==
  /\ pc = "done" /\ max_downloads >= 2 /\ lib.kind = "entries" /\ Len(extracted) >= 2
  /\ \E i, j \in 1..Len(lib.entries) :
       /\ i < j /\ lib.entries[i] = lib.entries[j]
       /\ lib.entries[i].truthy /\ lib.entries[i].hasId /\ lib.entries[i].id # <<>>
  /\ \E i \in 1..Len(lib.entries) :
       /\ EmbeddedList(url) # <<>> /\ lib.entries[i].hasId
       /\ <<WatchUrl(lib.entries[i].id)>> = EmbeddedList(url)

\* C3: get_video_url never returns a URL with '&list='; an input with '&list=' and
\* 'v=' gives 'https://www.youtube.com/watch?v=<id>', <id> being the text between the
\* first 'v=' and the next '&'; an input without '&list=' comes back unchanged; and
\* applying it twice gives what applying it once gives.
C3_CleanVideoUrl ==
  pc = "twice" =>
    /\ ~Contains(result[1], AMP_LIST)
    /\ (Contains(url, AMP_LIST) /\ Contains(url, V_EQ))
         => result[1] = YT_WATCH \o IdAfter(url, V_EQ)
    /\ ~Contains(url, AMP_LIST) => result[1] = url
    /\ result[2] = result[1]

\* C4: every URL of the resolved list is passed to download_video exactly once, in list
\* order, whatever the downloads' outcomes; no failure ends the loop, and the run ends
\* with the report written.
C4_EveryUrlAttempted ==
  /\ pc # "raised"
  /\ calls = SubSeq(url_ls, 1, Len(calls))
  /\ pc = "loop" => Len(calls) = idx
  /\ pc = "downloading" => Len(calls) = idx + 1
  /\ (pc = "loop" /\ idx < Len(url_ls)) => ENABLED CallDownload
  /\ (pc = "done" /\ IsMedia) => (calls = url_ls /\ Len(reports) = 1)

C4_Witness ==
  /\ pc = "done" /\ Len(url_ls) >= 2 /\ calls = url_ls /\ Len(reports) = 1
  /\ returns[1].title = ErrMsg /\ ~returns[1].success

Successes == {i \in 1..Len(returns) : returns[i].success}
Failures == {i \in 1..Len(returns) : ~returns[i].success}
IsVideoLine(l) == StartsWith(l, SUCCESS) \/ StartsWith(l, FAILED)
VideoLines(lines) == SelectSeq(lines, IsVideoLine)

\* C5: during the loop success_count + fail_count is the number of URLs processed; the
\* written report has one SUCCESS or FAILED line per resolved URL, in processing order,
\* SUCCESS exactly where download_video returned success; the totals add up to the
\* length of the resolved list and are the counts returned.
C5_ReportFaithful ==
  /\ pc \in {"loop", "downloading"} =>
       /\ success_count + fail_count = idx
       /\ Len(VideoLines(report_lines)) = idx
       /\ success_count = Cardinality(Successes)
  /\ (pc = "done" /\ IsMedia) =>
       /\ Len(reports) = 1
       /\ LET lines == reports[1].lines
              v == VideoLines(lines)
              n == Len(url_ls)
          IN /\ Len(v) = n /\ Len(returns) = n
             /\ \A i \in 1..n :
                  v[i] = IF returns[i].success
                         THEN SUCCESS \o returns[i].title \o SEP \o url_ls[i] \o NL
                         ELSE FAILED \o url_ls[i] \o UNABLE
             /\ InList(<<"T", "o", "t", "a", "l", " ", "P", "r", "o", "c", "e", "s", "s", "e", "d", ":", " ">> \o StrInt(n) \o NL, lines)
             /\ InList(<<"T", "o", "t", "a", "l", " ", "S", "u", "c", "c", "e", "s", "s", ":", " ">> \o StrInt(Cardinality(Successes)) \o NL, lines)
             /\ InList(<<"T", "o", "t", "a", "l", " ", "F", "a", "i", "l", "u", "r", "e", "s", ":", " ">> \o StrInt(Cardinality(Failures)) \o NL, lines)
             /\ Cardinality(Successes) + Cardinality(Failures) = n
             /\ result = <<[success_count |-> Cardinality(Successes),
                            fail_count |-> Cardinality(Failures),
                            report_path |-> reports[1].path]>>

C5_Witness ==
  /\ pc = "done" /\ Len(url_ls) >= 2 /\ Successes # {} /\ Failures # {}
  /\ Len(reports) = 1

\* C6: with a valid type, no download starts before URL resolution has finished, at
\* most one download is in progress, download i+1 starts only after download i has
\* returned, the report is written once and only after the last download has returned,
\* and the run eventually ends with the report written.
C6_LinearPipeline ==
  /\ [](active <= 1)
  /\ [](calls # <<>> => (url_ls # <<>> /\ pc \notin {"start", "resolve"}))
  /\ [](Len(reports) <= 1)
  /\ [](reports # <<>> =>
          (active = 0 /\ Len(returns) = Len(url_ls) /\ Len(calls) = Len(url_ls)))
  /\ [][calls' # calls => (active = 0 /\ Len(returns) = Len(calls))]_vars
  /\ [][reports # <<>> => (calls' = calls /\ reports' = reports)]_vars
  /\ (IsMedia ~> (pc = "done" /\ Len(reports) = 1))

C6_Witness ==
  /\ pc = "done" /\ IsMedia /\ Len(reports) = 1 /\ Len(calls) >= 2 /\ active = 0

\* C7: when extract_urls_from_playlist gives nothing for a URL containing 'list=',
\* exactly one download is attempted: of the canonical video URL when the URL contains
\* 'watch?v=', of the URL itself otherwise; so the loop never starts on an empty list
\* and a run with a valid type never returns (0, 0, None).
C7_Fallback ==
  /\ (Resolved /\ Contains(url, LIST_EQ) /\ extracted = <<>>) =>
       /\ url_ls = << IF Contains(url, WATCH_V)
                      THEN YT_WATCH \o IdAfter(url, WATCH_V)
                      ELSE url >>
       /\ pc = "done" => calls = url_ls
  /\ pc \in {"loop", "downloading"} => url_ls # <<>>
  /\ (pc = "done" /\ IsMedia) => (url_ls # <<>> /\ result[1].report_path # None)

C7_Witness ==
  /\ pc = "done" /\ IsMedia /\ Contains(url, LIST_EQ) /\ ~Contains(url, WATCH_V)
  /\ extracted = <<>> /\ queried # <<>> /\ calls = <<url>> /\ max_downloads >= 1

HasId(e) == e.truthy /\ e.hasId /\ e.id # <<>>

\* C8: for a URL with 'watch?v=' and 'list=' and max_downloads >= 1, the returned list
\* starts with the canonical URL of the embedded video, followed by the entries' URLs in
\* playlist order without empty entries, entries lacking an id and URLs already held,
\* up to max_downloads URLs; with max_downloads = 1 it is that one URL and the playlist
\* is not queried; a failing extraction leaves the URLs collected so far.
C8_EnumerationOrder ==
  (pc = "done" /\ Contains(url, WATCH_V) /\ Contains(url, LIST_EQ) /\ max_downloads >= 1)
    => LET emb == YT_WATCH \o IdAfter(url, WATCH_V)
           ents == IF lib.kind = "entries" THEN lib.entries ELSE <<>>
           valid == SelectSeq(ents, HasId)
           cands == <<emb>> \o [i \in 1..Len(valid) |-> YT_WATCH \o valid[i].id]
           d == Dedup(cands)
           expected == SubSeq(d, 1, IF Len(d) < max_downloads THEN Len(d)
                                    ELSE max_downloads)
       IN /\ extracted # <<>> /\ extracted[1] = emb
          /\ extracted = expected
          /\ result = <<extracted>>
          /\ max_downloads = 1 => (extracted = <<emb>> /\ queried = <<>>)
          /\ max_downloads > 1 => queried # <<>>

C8_Witness ==
  /\ pc = "done" /\ Contains(url, WATCH_V) /\ Contains(url, LIST_EQ)
  /\ max_downloads = 2 /\ Len(extracted) = 2 /\ lib.kind = "entries" /\ lib.raises
  /\ Len(lib.entries) = 3 /\ ~lib.entries[1].truthy
  /\ WatchUrl(lib.entries[2].id) = extracted[1] /\ HasId(lib.entries[3])

\* C9: with a type other than 'video' or 'audio', get_youtube returns (0, 0, None)
\* without enumerating a playlist, attempting a download or writing a report.
C9_InvalidTypeRejected ==
  ~IsMedia =>
    /\ pc \in {"start", "done"}
    /\ queried = <<>> /\ extracted = <<>> /\ url_ls = <<>>
    /\ calls = <<>> /\ active = 0
    /\ reports = <<>> /\ report_lines = <<>>
    /\ \A f \in files : ~StartsWith(f, <<"r", "e", "p", "o", "r", "t", "_">>)
    /\ pc = "done" => result = <<[success_count |-> 0, fail_count |-> 0,
                                  report_path |-> None]>>

C9_Witness == ~IsMedia /\ pc = "done" /\ Contains(url, LIST_EQ)

\* C10: download_video returns success only if the download made by that call put a
\* file for the video into the output directory; it returns False when the download
\* step fails without raising, whatever the directory held before, and whenever info
\* extraction yields nothing or the library raises.
C10_SuccessMeansDownloaded ==
  last.info # "unset" =>
    /\ last.success => last.put
    /\ last.dl = "silent" => ~last.success
    /\ (last.info \in {"none", "raise"} \/ last.dl = "raise") => ~last.success

====
